---- MODULE Spec2Model ----
(***************************************************************************)
(* Token lifecycle of the backend: login, bearer authentication,           *)
(* transparent renewal through the refresh cookie, role gates, logout and  *)
(* the admin user endpoints.  Every HTTP request is a record that walks    *)
(* through the middleware chain of its route, one stage per step.          *)
(*                                                                         *)
(* JavaScript objects are records whose absent (undefined) properties are  *)
(* simply not in the record's DOMAIN.                                      *)
(***************************************************************************)
EXTENDS Integers, Sequences, FiniteSets, TLC

VARIABLES NODE_ENV, db, now, ticks, held, jar, reqs, atLogout

vars == <<NODE_ENV, db, now, ticks, held, jar, reqs, atLogout>>

-----------------------------------------------------------------------------
(* Bounds *)

MaxTicks == 2

(* requests in flight at once in SpecConcurrent *)
MaxInFlight == 2

-----------------------------------------------------------------------------
(* Program constants *)

ACCESS_TTL == 900

REFRESH_TTL == 604800

REFRESH_MAX_AGE == 604800000

SALT_ROUNDS == 10

PASSWORD_MIN == 8

PASSWORD_MAX == 16

-----------------------------------------------------------------------------
(* JavaScript helpers *)

Has(obj, f) == f \in DOMAIN obj

Null == [null |-> TRUE]

NoBody == <<>>

Msg(text) == [text |-> text, arg |-> <<>>]

MsgArg(text, arg) == [text |-> text, arg |-> arg]

-----------------------------------------------------------------------------
(* Request inputs: e-mail addresses and passwords as structured strings *)

Email(local, domain) == [local |-> local, at |-> TRUE, domain |-> domain]

EmptyString == [local |-> "", at |-> FALSE, domain |-> ""]

AnaEmail == Email("ana", "corp.com")

BeaEmail == Email("bea", "corp.com")

GhostEmail == Email("ghost", "corp.com")

NotAnEmail == [local |-> "ana", at |-> FALSE, domain |-> ""]

Pw(text, len, upper, lower, digit) ==
    [text |-> text, len |-> len, upper |-> upper, lower |-> lower, digit |-> digit]

AnaPassword == Pw("Password1", 9, TRUE, TRUE, TRUE)

BeaPassword == Pw("Secret2xY", 9, TRUE, TRUE, TRUE)

NewPassword == Pw("Fresh3pwD", 9, TRUE, TRUE, TRUE)

WeakPassword == Pw("short", 5, FALSE, TRUE, FALSE)

EmptyPassword == Pw("", 0, FALSE, FALSE, FALSE)

(* bodies of POST /login: email and password each present, empty or absent *)
LoginBodies ==
    {[email |-> e, password |-> p] :
         e \in {AnaEmail, BeaEmail, GhostEmail}, p \in {AnaPassword, BeaPassword, WeakPassword}}
    \cup {[email |-> AnaEmail], [password |-> AnaPassword],
          [email |-> EmptyString, password |-> AnaPassword],
          [email |-> AnaEmail, password |-> EmptyPassword],
          [email |-> NotAnEmail, password |-> AnaPassword]}

(* !value for the strings of a login body *)
Falsy(obj, f) == ~Has(obj, f) \/ obj[f] = EmptyString \/ obj[f] = EmptyPassword

isEmail(e) == e.at /\ e.local # "" /\ e.domain # ""

passwordRegex(p) ==
    p.upper /\ p.lower /\ p.digit /\ p.len >= PASSWORD_MIN /\ p.len <= PASSWORD_MAX

loginValidator(body) ==
    /\ Has(body, "email") /\ isEmail(body.email)
    /\ Has(body, "password") /\ passwordRegex(body.password)

-----------------------------------------------------------------------------
(* Password Verifier (bcrypt) *)

bcryptHash(p, rounds) == [bcrypt |-> rounds, of |-> p.text]

bcryptCompare(p, h) == h.of = p.text

-----------------------------------------------------------------------------
(* Credential store: table users(user_id, role, email, password) *)

Roles == {"admin", "hr", "mkt"}

(* the users the admin requests name: an account and an id never assigned *)
AdminTargets == {2, 3}

InitialUsers ==
    { [user_id |-> 1, role |-> "admin", email |-> AnaEmail,
       password |-> bcryptHash(AnaPassword, SALT_ROUNDS)],
      [user_id |-> 2, role |-> "hr", email |-> BeaEmail,
       password |-> bcryptHash(BeaPassword, SALT_ROUNDS)] }

Project(row, cols) == [c \in cols |-> row[c]]

(* rows as an array: the table holds at most one row per key in this model *)
Rows(S) == IF S = {} THEN <<>> ELSE <<CHOOSE r \in S : TRUE>>

loginQuery(table, email) ==
    Rows({Project(r, {"user_id", "role", "email", "password"}) :
              r \in {u \in table : u.email = email}})


getUserByIdAdminQuery(table, user_id) ==
    Rows({Project(r, {"user_id", "role", "email", "password"}) :
              r \in {u \in table : u.user_id = user_id}})

-----------------------------------------------------------------------------
(* Token Codec (config/jsonwebtoken): signed claims with issue and expiry  *)
(* time.  sig names the secret the token verifies under.                   *)

Garbage == [garbage |-> TRUE]

EmptyTok == [emptyString |-> TRUE]

createToken(kind, payload, t, ttl) ==
    [kind |-> kind, payload |-> payload, iat |-> t, exp |-> t + ttl, sig |-> kind]

createAccessToken(payload, t) == createToken("access", payload, t, ACCESS_TTL)

createRefreshToken(payload, t) == createToken("refresh", payload, t, REFRESH_TTL)

Tamper(token) == [token EXCEPT !.sig = "forged"]

Thrown(message) == [ok |-> FALSE, message |-> message]

verifyToken(kind, token, t, expiredMessage, invalidMessage) ==
    IF ~Has(token, "sig") THEN Thrown(invalidMessage)
    ELSE IF token.sig # kind THEN Thrown(invalidMessage)
    ELSE IF t >= token.exp THEN Thrown(expiredMessage)
    ELSE [ok |-> TRUE,
          claims |-> token.payload @@ [iat |-> token.iat, exp |-> token.exp]]

verifyAccessToken(token, t) ==
    verifyToken("access", token, t, "ACCESS_TOKEN_EXPIRED", "INVALID_ACCESS_TOKEN")

verifyRefreshToken(token, t) ==
    verifyToken("refresh", token, t, "REFRESH_TOKEN_EXPIRED", "INVALID_REFRESH_TOKEN")

IsToken(v) == Has(v, "sig")

-----------------------------------------------------------------------------
(* HTTP responses and cookies *)

IssueCookieOptions(env) ==
    [httpOnly |-> TRUE, secure |-> (env = "production"), sameSite |-> "strict",
     maxAge |-> REFRESH_MAX_AGE, path |-> "/api"]

(* variant: the cookie is cleared with a laxer sameSite than it was set with *)
ClearCookieOptionsLax(env) ==
    [httpOnly |-> TRUE, secure |-> (env = "production"), sameSite |-> "lax",
     path |-> "/api"]

ClearCookieOptions(env) ==
    [httpOnly |-> TRUE, secure |-> (env = "production"), sameSite |-> "strict",
     path |-> "/api"]

DefaultCookieOptions == [path |-> "/"]

SetCookie(name, value, opts) == [op |-> "set", name |-> name, value |-> value, opts |-> opts]

ClearCookie(name, opts) == [op |-> "clear", name |-> name, opts |-> opts]

NoResponse == [sent |-> FALSE, status |-> 200, body |-> NoBody, headers |-> <<>>, cookies |-> <<>>]

(* res.status(code).json(body) on the response built so far *)
Json(res, code, body) == [res EXCEPT !.sent = TRUE, !.status = code, !.body = body]

NoCookie == [absent |-> TRUE]

(* the browser's refresh_token cookie after the Set-Cookie headers of a response *)
RECURSIVE ApplyCookies(_, _)
ApplyCookies(cookie, ops) ==
    IF ops = <<>> THEN cookie
    ELSE LET o == Head(ops)
             after == IF o.name # "refresh_token" THEN cookie
                      ELSE IF o.op = "set" THEN [value |-> o.value, path |-> o.opts.path]
                      ELSE IF cookie # NoCookie /\ cookie.path = o.opts.path THEN NoCookie
                      ELSE cookie
         IN  ApplyCookies(after, Tail(ops))

-----------------------------------------------------------------------------
(* Session Issuer: authModel.login and the login controller *)

Without(row, col) == [c \in DOMAIN row \ {col} |-> row[c]]

(* value || '' *)
OrEmpty(obj, f) == IF Has(obj, f) THEN obj[f] ELSE ""

authModelLogin(table, email, password) ==
    LET rows == loginQuery(table, email)
    IN  IF Len(rows) = 0 THEN <<>>
        ELSE IF ~bcryptCompare(password, rows[1].password) THEN <<>>
        ELSE <<Without(rows[1], "password")>>

(* variant: the refresh token names the user under id_user *)
loginSuccessIdUser(env, t, user, res) ==
    LET accessToken == createAccessToken(
            [user_id |-> user.user_id, role |-> user.role, email |-> user.email,
             name |-> OrEmpty(user, "name"), surname |-> OrEmpty(user, "surname")], t)
        refreshToken == createRefreshToken(
            [id_user |-> user.user_id, email |-> user.email, role |-> user.role], t)
        withCookie == [res EXCEPT !.cookies =
            Append(@, SetCookie("refresh_token", refreshToken, IssueCookieOptions(env)))]
    IN  Json(withCookie, 200,
             [success |-> TRUE, accessToken |-> accessToken, expiresIn |-> ACCESS_TTL,
              user |-> [user_id |-> user.user_id, email |-> user.email, role |-> user.role,
                        name |-> OrEmpty(user, "name"),
                        surname |-> OrEmpty(user, "surname")]])

(* variant: the response body also returns the refresh token *)
loginSuccessBodyRefresh(env, t, user, res) ==
    LET accessToken == createAccessToken(
            [user_id |-> user.user_id, role |-> user.role, email |-> user.email,
             name |-> OrEmpty(user, "name"), surname |-> OrEmpty(user, "surname")], t)
        refreshToken == createRefreshToken(
            [user_id |-> user.user_id, email |-> user.email, role |-> user.role], t)
        withCookie == [res EXCEPT !.cookies =
            Append(@, SetCookie("refresh_token", refreshToken, IssueCookieOptions(env)))]
    IN  Json(withCookie, 200,
             [success |-> TRUE, accessToken |-> accessToken, refreshToken |-> refreshToken,
              expiresIn |-> ACCESS_TTL,
              user |-> [user_id |-> user.user_id, email |-> user.email, role |-> user.role,
                        name |-> OrEmpty(user, "name"),
                        surname |-> OrEmpty(user, "surname")]])

loginSuccess(env, t, user, res) ==
    LET accessToken == createAccessToken(
            [user_id |-> user.user_id, role |-> user.role, email |-> user.email,
             name |-> OrEmpty(user, "name"), surname |-> OrEmpty(user, "surname")], t)
        refreshToken == createRefreshToken(
            [user_id |-> user.user_id, email |-> user.email, role |-> user.role], t)
        withCookie == [res EXCEPT !.cookies =
            Append(@, SetCookie("refresh_token", refreshToken, IssueCookieOptions(env)))]
    IN  Json(withCookie, 200,
             [success |-> TRUE, accessToken |-> accessToken, expiresIn |-> ACCESS_TTL,
              user |-> [user_id |-> user.user_id, email |-> user.email, role |-> user.role,
                        name |-> OrEmpty(user, "name"),
                        surname |-> OrEmpty(user, "surname")]])

(* variant: a store error ends the session it finds *)
ServerErrorClearing(env, res) ==
    Json([res EXCEPT !.cookies =
              Append(@, ClearCookie("refresh_token", ClearCookieOptions(env)))],
         500, [success |-> FALSE, message |-> Msg("Error interno del servidor")])

ServerError(env, res) ==
    Json(res, 500,
         [success |-> FALSE, message |-> Msg("Error interno del servidor")]
         @@ (IF env = "development" THEN [error |-> Msg("store error")] ELSE <<>>))

(* variant: an unknown email is answered apart from a wrong password *)
loginUserNotFound(env, table, t, in, res) ==
    IF Falsy(in.body, "email") \/ Falsy(in.body, "password")
    THEN Json(res, 400, [success |-> FALSE,
                         message |-> Msg("Email y contraseña son requeridos")])
    ELSE IF ~in.storeOk THEN ServerError(env, res)
    ELSE IF Len(loginQuery(table, in.body.email)) = 0
    THEN Json(res, 404, [success |-> FALSE, message |-> Msg("Usuario no encontrado")])
    ELSE LET userResult == authModelLogin(table, in.body.email, in.body.password)
         IN  IF Len(userResult) = 0
             THEN Json(res, 401, [success |-> FALSE,
                                  message |-> Msg("Credenciales inválidas")])
             ELSE loginSuccess(env, t, userResult[1], res)

login(env, table, t, in, res) ==
    IF Falsy(in.body, "email") \/ Falsy(in.body, "password")
    THEN Json(res, 400, [success |-> FALSE,
                         message |-> Msg("Email y contraseña son requeridos")])
    ELSE IF ~in.storeOk THEN ServerError(env, res)
    ELSE LET userResult == authModelLogin(table, in.body.email, in.body.password)
         IN  IF Len(userResult) = 0
             THEN Json(res, 401, [success |-> FALSE,
                                  message |-> Msg("Credenciales inválidas")])
             ELSE loginSuccess(env, t, userResult[1], res)

-----------------------------------------------------------------------------
(* Request Authenticator: authMiddleware.authenticate *)

Undefined == [undefined |-> TRUE]

Truthy(obj, f) == Has(obj, f) /\ obj[f] # EmptyTok

LocateToken(in) ==
    IF Has(in.headers, "authorization") /\ in.headers.authorization.scheme = "Bearer"
    THEN [token |-> in.headers.authorization.token, tokenSource |-> "header"]
    ELSE IF Truthy(in.query, "token")
    THEN [token |-> in.query.token, tokenSource |-> "query"]
    ELSE IF Truthy(in.cookies, "access_token")
    THEN [token |-> in.cookies.access_token, tokenSource |-> "cookie"]
    ELSE IF Truthy(in.body, "token")
    THEN [token |-> in.body.token, tokenSource |-> "body"]
    ELSE [token |-> Undefined, tokenSource |-> "none"]

(* value || fallback on a decoded claim *)
Or(obj, f, fallback) == IF Has(obj, f) /\ obj[f] # "" THEN obj[f] ELSE fallback

Optional(obj, f, as) == IF Has(obj, f) THEN [x \in {as} |-> obj[f]] ELSE <<>>

(* variant: the response is sent but the return is missing, so next runs *)
StopAndGoOn(ctx, res) == [ctx |-> ctx, res |-> res, next |-> TRUE]

Stop(ctx, res) == [ctx |-> ctx, res |-> res, next |-> FALSE]

Continue(ctx, res) == [ctx |-> ctx, res |-> res, next |-> TRUE]

(* variant: every verification failure is taken for an expiry *)
(* variant: an expired token is rejected like any other failure *)
(* variant: a token without user identifier is let through *)
attachIdentityAnonymous(env, t, token, ctx, res) ==
    LET v == verifyAccessToken(token, t)
    IN  IF v.ok
        THEN Continue(
                 [user |-> [role |-> Or(v.claims, "role", "user"),
                            name |-> Or(v.claims, "name", ""),
                            surname |-> Or(v.claims, "surname", ""),
                            loginMethod |-> Or(v.claims, "loginMethod", "traditional")]
                           @@ Optional(v.claims, "user_id", "id_user")
                           @@ Optional(v.claims, "id_user", "id_user")
                           @@ Optional(v.claims, "email", "email"),
                  token |-> token,
                  tokenExpired |-> FALSE] @@ ctx, res)
        ELSE IF v.message = "ACCESS_TOKEN_EXPIRED"
        THEN Continue([tokenExpired |-> TRUE, token |-> token, user |-> Null] @@ ctx, res)
        ELSE Stop(ctx, Json(res, 401,
                      [success |-> FALSE,
                       message |-> Msg("Token inválido o mal formado"),
                       code |-> "INVALID_TOKEN"]))

attachIdentityStrict(env, t, token, ctx, res) ==
    LET v == verifyAccessToken(token, t)
    IN  IF v.ok /\ (Has(v.claims, "user_id") \/ Has(v.claims, "id_user"))
        THEN Continue(
                 [user |-> [id_user |-> IF Has(v.claims, "user_id")
                                        THEN v.claims.user_id ELSE v.claims.id_user,
                            role |-> Or(v.claims, "role", "user"),
                            name |-> Or(v.claims, "name", ""),
                            surname |-> Or(v.claims, "surname", ""),
                            loginMethod |-> Or(v.claims, "loginMethod", "traditional")]
                           @@ Optional(v.claims, "email", "email"),
                  token |-> token,
                  tokenExpired |-> FALSE] @@ ctx, res)
        ELSE Stop(ctx, Json(res, 401,
                      [success |-> FALSE,
                       message |-> Msg("Token inválido o mal formado"),
                       code |-> "INVALID_TOKEN"]))

attachIdentityLenient(env, t, token, ctx, res) ==
    LET v == verifyAccessToken(token, t)
    IN  IF v.ok /\ (Has(v.claims, "user_id") \/ Has(v.claims, "id_user"))
        THEN Continue(
                 [user |-> [id_user |-> IF Has(v.claims, "user_id")
                                        THEN v.claims.user_id ELSE v.claims.id_user,
                            role |-> Or(v.claims, "role", "user"),
                            name |-> Or(v.claims, "name", ""),
                            surname |-> Or(v.claims, "surname", ""),
                            loginMethod |-> Or(v.claims, "loginMethod", "traditional")]
                           @@ Optional(v.claims, "email", "email"),
                  token |-> token,
                  tokenExpired |-> FALSE] @@ ctx, res)
        ELSE Continue([tokenExpired |-> TRUE, token |-> token, user |-> Null] @@ ctx, res)

(* the try block: verify the located token and attach the identity *)
attachIdentity(env, t, token, ctx, res) ==
    LET v == verifyAccessToken(token, t)
    IN  IF v.ok
        THEN LET decoded == v.claims
             IN  IF ~Has(decoded, "user_id") /\ ~Has(decoded, "id_user")
                 THEN Stop(ctx, Json(res, 401,
                          [success |-> FALSE,
                           message |-> Msg("Token inválido: falta identificación de usuario"),
                           code |-> "INVALID_TOKEN_FORMAT"]))
                 ELSE Continue(
                          [user |-> [id_user |-> IF Has(decoded, "user_id")
                                                 THEN decoded.user_id
                                                 ELSE decoded.id_user,
                                     role |-> Or(decoded, "role", "user"),
                                     name |-> Or(decoded, "name", ""),
                                     surname |-> Or(decoded, "surname", ""),
                                     loginMethod |-> Or(decoded, "loginMethod", "traditional")]
                                    @@ Optional(decoded, "email", "email"),
                           token |-> token,
                           tokenExpired |-> FALSE] @@ ctx, res)
        ELSE IF v.message = "ACCESS_TOKEN_EXPIRED"
        THEN Continue([tokenExpired |-> TRUE, token |-> token, user |-> Null] @@ ctx, res)
        ELSE Stop(ctx, Json(res, 401,
                      [success |-> FALSE,
                       message |-> Msg("Token inválido o mal formado"),
                       code |-> "INVALID_TOKEN"]
                      @@ (IF env = "development"
                          THEN [debug |-> [error |-> v.message]] ELSE <<>>)))

TokenRequired(ctx, res) ==
    Stop(ctx, Json(res, 401, [success |-> FALSE,
                              message |-> Msg("Token de acceso requerido"),
                              code |-> "TOKEN_REQUIRED"]))

(* variant: a bearer token counts only while the session cookie is there *)
authenticateSessionBound(env, t, in, ctx, res) ==
    LET token == LocateToken(in).token
    IN  IF token = Undefined \/ token = EmptyTok \/ ~Truthy(in.cookies, "refresh_token")
        THEN TokenRequired(ctx, res)
        ELSE attachIdentity(env, t, token, ctx, res)

authenticate(env, t, in, ctx, res) ==
    LET token == LocateToken(in).token
    IN  IF token = Undefined \/ token = EmptyTok
        THEN TokenRequired(ctx, res)
        ELSE attachIdentity(env, t, token, ctx, res)

-----------------------------------------------------------------------------
(* Renewal Interceptor: checkRefreshCookie *)

NoUser(ctx) == ~Has(ctx, "user") \/ ctx.user = Null

(* variant: a refresh token renews once; a second request presenting it is *)
(* refused                                                                  *)
(* variant: a refresh cookie that fails verification is passed over and the *)
(* request goes on unauthenticated                                          *)
(* variant: a request without refresh cookie is answered like one with a   *)
(* bad cookie                                                               *)
(* variant: the refresh cookie is verified on every request that has one *)
checkRefreshCookieEager(env, t, in, ctx, res) ==
    IF ~Truthy(in.cookies, "refresh_token")
    THEN IF Has(ctx, "tokenExpired") /\ ctx.tokenExpired
         THEN Stop(ctx, Json(res, 401,
                  [success |-> FALSE, code |-> "SESSION_EXPIRED",
                   message |-> Msg("Sesión expirada. Por favor, inicia sesión nuevamente.")]))
         ELSE Continue(ctx, res)
    ELSE LET v == verifyRefreshToken(in.cookies.refresh_token, t)
         IN  IF v.ok
             THEN LET identity == Optional(v.claims, "id_user", "id_user")
                                  @@ Optional(v.claims, "email", "email")
                                  @@ [role |-> Or(v.claims, "role", "user")]
                  IN  Continue([token |-> createAccessToken(identity, t), user |-> identity,
                                tokenExpired |-> FALSE] @@ ctx,
                               [res EXCEPT !.headers =
                                    [XNewAccessToken |-> createAccessToken(identity, t)] @@ @])
             ELSE Stop(ctx, Json([res EXCEPT !.cookies =
                                      Append(@, ClearCookie("refresh_token",
                                                            DefaultCookieOptions))],
                                 401,
                                 [success |-> FALSE, code |-> "INVALID_SESSION",
                                  message |-> Msg("Sesión inválida. Por favor, inicia sesión nuevamente.")]))

checkRefreshCookieAlwaysClear(env, t, in, ctx, res) ==
    IF ~(Has(ctx, "tokenExpired") /\ ctx.tokenExpired)
    THEN Continue(ctx, res)
    ELSE LET v == IF Truthy(in.cookies, "refresh_token")
                  THEN verifyRefreshToken(in.cookies.refresh_token, t)
                  ELSE Thrown("INVALID_REFRESH_TOKEN")
         IN  IF v.ok
             THEN LET identity == Optional(v.claims, "id_user", "id_user")
                                  @@ Optional(v.claims, "email", "email")
                                  @@ [role |-> Or(v.claims, "role", "user")]
                  IN  Continue([token |-> createAccessToken(identity, t), user |-> identity,
                                tokenExpired |-> FALSE] @@ ctx,
                               [res EXCEPT !.headers =
                                    [XNewAccessToken |-> createAccessToken(identity, t)] @@ @])
             ELSE Stop(ctx, Json([res EXCEPT !.cookies =
                                      Append(@, ClearCookie("refresh_token",
                                                            DefaultCookieOptions))],
                                 401,
                                 [success |-> FALSE, code |-> "INVALID_SESSION",
                                  message |-> Msg("Sesión inválida. Por favor, inicia sesión nuevamente.")]))

checkRefreshCookieSwallow(env, t, in, ctx, res) ==
    IF ~(Has(ctx, "tokenExpired") /\ ctx.tokenExpired)
    THEN Continue(ctx, res)
    ELSE IF ~Truthy(in.cookies, "refresh_token")
    THEN Stop(ctx, Json(res, 401,
                 [success |-> FALSE, code |-> "SESSION_EXPIRED",
                  message |-> Msg("Sesión expirada. Por favor, inicia sesión nuevamente.")]))
    ELSE LET v == verifyRefreshToken(in.cookies.refresh_token, t)
         IN  IF v.ok
             THEN LET identity == Optional(v.claims, "id_user", "id_user")
                                  @@ Optional(v.claims, "email", "email")
                                  @@ [role |-> Or(v.claims, "role", "user")]
                  IN  Continue([token |-> createAccessToken(identity, t), user |-> identity,
                                tokenExpired |-> FALSE] @@ ctx,
                               [res EXCEPT !.headers =
                                    [XNewAccessToken |-> createAccessToken(identity, t)] @@ @])
             ELSE Continue(ctx, res)

checkRefreshCookieSingleUse(env, t, in, ctx, res) ==
    IF ~(Has(ctx, "tokenExpired") /\ ctx.tokenExpired)
    THEN Continue(ctx, res)
    ELSE IF ~Truthy(in.cookies, "refresh_token")
    THEN Stop(ctx, Json(res, 401,
                 [success |-> FALSE, code |-> "SESSION_EXPIRED",
                  message |-> Msg("Sesión expirada. Por favor, inicia sesión nuevamente.")]))
    ELSE LET v == verifyRefreshToken(in.cookies.refresh_token, t)
             used == \E o \in DOMAIN reqs :
                         /\ Has(reqs[o].res.headers, "XNewAccessToken")
                         /\ reqs[o].in.cookies = in.cookies
         IN  IF v.ok /\ ~used
             THEN LET identity == Optional(v.claims, "id_user", "id_user")
                                  @@ Optional(v.claims, "email", "email")
                                  @@ [role |-> Or(v.claims, "role", "user")]
                  IN  Continue([token |-> createAccessToken(identity, t), user |-> identity,
                                tokenExpired |-> FALSE] @@ ctx,
                               [res EXCEPT !.headers =
                                    [XNewAccessToken |-> createAccessToken(identity, t)] @@ @])
             ELSE Stop(ctx, Json([res EXCEPT !.cookies =
                                      Append(@, ClearCookie("refresh_token",
                                                            DefaultCookieOptions))],
                                 401,
                                 [success |-> FALSE, code |-> "INVALID_SESSION",
                                  message |-> Msg("Sesión inválida. Por favor, inicia sesión nuevamente.")]))

checkRefreshCookie(env, t, in, ctx, res) ==
    IF ~(Has(ctx, "tokenExpired") /\ ctx.tokenExpired)
    THEN Continue(ctx, res)
    ELSE IF ~Truthy(in.cookies, "refresh_token")
    THEN Stop(ctx, Json(res, 401,
                 [success |-> FALSE, code |-> "SESSION_EXPIRED",
                  message |-> Msg("Sesión expirada. Por favor, inicia sesión nuevamente.")]))
    ELSE LET v == verifyRefreshToken(in.cookies.refresh_token, t)
         IN  IF v.ok
             THEN LET refreshData == v.claims
                      identity == Optional(refreshData, "id_user", "id_user")
                                  @@ Optional(refreshData, "email", "email")
                                  @@ [role |-> Or(refreshData, "role", "user")]
                      newAccessToken == createAccessToken(identity, t)
                  IN  Continue([token |-> newAccessToken, user |-> identity,
                                tokenExpired |-> FALSE] @@ ctx,
                               [res EXCEPT !.headers =
                                    [XNewAccessToken |-> newAccessToken] @@ @])
             ELSE Stop(ctx, Json([res EXCEPT !.cookies =
                                      Append(@, ClearCookie("refresh_token",
                                                            DefaultCookieOptions))],
                                 401,
                                 [success |-> FALSE, code |-> "INVALID_SESSION",
                                  message |-> Msg("Sesión inválida. Por favor, inicia sesión nuevamente.")]))

-----------------------------------------------------------------------------
(* Role Gate: requireAdmin, requireHR, requireMarketing, isAuthenticated,  *)
(* hasRole(role), hasAnyRole(roles)                                        *)

Stage(mw, roles) == [mw |-> mw, roles |-> roles]

NotAuthenticated(res) ==
    Json(res, 401, [success |-> FALSE, message |-> Msg("No autenticado"),
                    code |-> "NOT_AUTHENTICATED"])

Forbidden(res, message, code) ==
    Json(res, 403, [success |-> FALSE, message |-> message, code |-> code])

InSeq(x, seq) == \E i \in 1..Len(seq) : seq[i] = x

requireFixedRole(role, message, code, ctx, res) ==
    IF NoUser(ctx) THEN Stop(ctx, NotAuthenticated(res))
    ELSE IF ctx.user.role # role THEN Stop(ctx, Forbidden(res, Msg(message), code))
    ELSE Continue(ctx, res)

requireAdmin(ctx, res) ==
    requireFixedRole("admin", "Acceso denegado: solo administradores", "ADMIN_REQUIRED",
                     ctx, res)

requireHR(ctx, res) ==
    requireFixedRole("hr", "Acceso denegado: solo recursos humanos", "HR_REQUIRED",
                     ctx, res)

requireMarketing(ctx, res) ==
    requireFixedRole("mkt", "Acceso denegado: solo marketing", "MARKETING_REQUIRED",
                     ctx, res)

(* variant: the gate lets every request through *)
isAuthenticatedOpen(ctx, res) == Continue(ctx, res)

isAuthenticated(ctx, res) ==
    IF NoUser(ctx) THEN Stop(ctx, NotAuthenticated(res)) ELSE Continue(ctx, res)

(* variant: the factory forgets to compare the role *)
hasRoleUnchecked(role, ctx, res) ==
    IF NoUser(ctx) THEN Stop(ctx, NotAuthenticated(res)) ELSE Continue(ctx, res)

hasRole(role, ctx, res) ==
    IF NoUser(ctx) THEN Stop(ctx, NotAuthenticated(res))
    ELSE IF ctx.user.role # role
    THEN Stop(ctx, Forbidden(res, MsgArg("Acceso denegado. Se requiere rol: ", <<role>>),
                             "ROLE_REQUIRED"))
    ELSE Continue(ctx, res)

(* variant: the factory reads the role before looking for the identity *)
hasAnyRoleRoleFirst(roles, ctx, res) ==
    IF NoUser(ctx) \/ ~InSeq(ctx.user.role, roles)
    THEN Stop(ctx, Forbidden(res,
                      MsgArg("Acceso denegado. Se requiere uno de estos roles: ", roles),
                      "ROLE_REQUIRED"))
    ELSE Continue(ctx, res)

hasAnyRole(roles, ctx, res) ==
    IF NoUser(ctx) THEN Stop(ctx, NotAuthenticated(res))
    ELSE IF ~InSeq(ctx.user.role, roles)
    THEN Stop(ctx, Forbidden(res,
                      MsgArg("Acceso denegado. Se requiere uno de estos roles: ", roles),
                      "ROLE_REQUIRED"))
    ELSE Continue(ctx, res)

GateNames ==
    {"requireAdmin", "requireHR", "requireMarketing", "isAuthenticated", "hasRole",
     "hasAnyRole"}

gate(stage, ctx, res) ==
    CASE stage.mw = "requireAdmin" -> requireAdmin(ctx, res)
      [] stage.mw = "requireHR" -> requireHR(ctx, res)
      [] stage.mw = "requireMarketing" -> requireMarketing(ctx, res)
      [] stage.mw = "isAuthenticated" -> isAuthenticated(ctx, res)
      [] stage.mw = "hasRole" -> hasRole(stage.roles[1], ctx, res)
      [] stage.mw = "hasAnyRole" -> hasAnyRole(stage.roles, ctx, res)

-----------------------------------------------------------------------------
(* Logout, the /refresh endpoint and the protected business handler *)

(* variant: the cookie is cleared without the attributes it was set with *)
logoutDefaultClear(env, res) ==
    Json([res EXCEPT !.cookies =
              Append(@, ClearCookie("refresh_token", DefaultCookieOptions))],
         200, [success |-> TRUE, message |-> Msg("Sesión cerrada exitosamente.")])

logout(env, res) ==
    Json([res EXCEPT !.cookies =
              Append(@, ClearCookie("refresh_token", ClearCookieOptions(env)))],
         200, [success |-> TRUE, message |-> Msg("Sesión cerrada exitosamente.")])

authModelExports == {"login", "logout"}

getUserByIdAuthQuery(table, user_id) ==
    Rows({Project(r, {"user_id", "role", "email"}) :
              r \in {u \in table : u.user_id = user_id}})

refreshSuccess(env, t, user, res) ==
    LET newAccessToken == createAccessToken(
            [user_id |-> user.user_id, role |-> user.role, email |-> user.email,
             name |-> OrEmpty(user, "name"), surname |-> OrEmpty(user, "surname")], t)
        newRefreshToken == createRefreshToken(
            [user_id |-> user.user_id, email |-> user.email, role |-> user.role], t)
        withCookie == [res EXCEPT !.cookies =
            Append(@, SetCookie("refresh_token", newRefreshToken, IssueCookieOptions(env)))]
    IN  Json(withCookie, 200,
             [success |-> TRUE, accessToken |-> newAccessToken, expiresIn |-> ACCESS_TTL,
              user |-> [user_id |-> user.user_id, email |-> user.email, role |-> user.role,
                        name |-> OrEmpty(user, "name"),
                        surname |-> OrEmpty(user, "surname")]])

refreshToken(env, table, t, in, res) ==
    IF ~Truthy(in.cookies, "refresh_token")
    THEN Json(res, 401, [success |-> FALSE, message |-> Msg("Refresh token requerido"),
                         code |-> "REFRESH_TOKEN_REQUIRED"])
    ELSE LET v == verifyRefreshToken(in.cookies.refresh_token, t)
         IN  IF ~v.ok
             THEN IF v.message = "REFRESH_TOKEN_EXPIRED" \/ v.message = "Token expirado"
                  THEN Json([res EXCEPT !.cookies =
                                 Append(@, ClearCookie("refresh_token",
                                                       ClearCookieOptions(env)))],
                            401,
                            [success |-> FALSE,
                             message |-> Msg("Sesión expirada. Por favor inicie sesión nuevamente."),
                             code |-> "SESSION_EXPIRED"])
                  ELSE Json(res, 401, [success |-> FALSE,
                                       message |-> Msg("Refresh token inválido"),
                                       code |-> "INVALID_REFRESH_TOKEN"])
             ELSE IF "getUserById" \notin authModelExports \/ ~in.storeOk
             THEN Json(res, 500, [success |-> FALSE,
                                  message |-> Msg("Error interno del servidor")])
             ELSE LET userResult == getUserByIdAuthQuery(table, v.claims.user_id)
                  IN  IF Len(userResult) = 0
                      THEN Json([res EXCEPT !.cookies =
                                     Append(@, ClearCookie("refresh_token",
                                                           ClearCookieOptions(env)))],
                                401,
                                [success |-> FALSE, message |-> Msg("Usuario no encontrado"),
                                 code |-> "USER_NOT_FOUND"])
                      ELSE refreshSuccess(env, t, userResult[1], res)

(* the documented protected route: res.json({ user: req.user }) *)
protectedHandler(ctx, res) ==
    Json(res, 200, IF Has(ctx, "user") THEN [user |-> ctx.user] ELSE <<>>)

-----------------------------------------------------------------------------
(* Admin user endpoints: adminModel and adminController *)

Threw(message) == [threw |-> TRUE, message |-> message]

adminModelGetUserById(table, user_id, storeOk) ==
    LET rows == getUserByIdAdminQuery(table, user_id)
    IN  IF ~storeOk
        THEN Threw(MsgArg("Error al obtener usuario por ID: ", <<"store error">>))
        ELSE IF Len(rows) = 0
        THEN Threw(MsgArg("Error al obtener usuario por ID: Usuario con ID no encontrado",
                          <<ToString(user_id)>>))
        ELSE [threw |-> FALSE, value |-> rows[1]]

getUserById(table, in, res) ==
    LET user == adminModelGetUserById(table, in.params.user_id, in.storeOk)
    IN  IF user.threw
        THEN Json(res, 404, [success |-> FALSE, error |-> user.message])
        ELSE Json(res, 200, [success |-> TRUE, data |-> user.value])

adminModelDeleteUserById(table, user_id, storeOk) ==
    LET existingUser == getUserByIdAdminQuery(table, user_id)
    IN  IF ~storeOk
        THEN Threw(MsgArg("Error al eliminar usuario: ", <<"store error">>))
        ELSE IF Len(existingUser) = 0
        THEN Threw(MsgArg("Error al eliminar usuario: Usuario con ID no encontrado",
                          <<ToString(user_id)>>))
        ELSE [threw |-> FALSE,
              table |-> {u \in table : u.user_id # user_id},
              value |-> [message |-> MsgArg("Usuario con ID eliminado exitosamente",
                                            <<ToString(user_id)>>),
                         deletedUser |-> existingUser[1]]]

deleteUserById(table, in, res) ==
    LET result == adminModelDeleteUserById(table, in.params.user_id, in.storeOk)
    IN  IF result.threw
        THEN [table |-> table,
              res |-> Json(res, 400, [success |-> FALSE, error |-> result.message])]
        ELSE [table |-> result.table, res |-> Json(res, 200, result.value)]

(* String.prototype.toLowerCase on the role names a client sends *)
toLowerCase(s) ==
    CASE s = "Admin" -> "admin"
      [] s = "ADMIN" -> "admin"
      [] s = "HR" -> "hr"
      [] s = "Mkt" -> "mkt"
      [] OTHER -> s

updateUserByIdQuery(table, role, email, password, user_id) ==
    {IF u.user_id = user_id
     THEN [u EXCEPT !.role = role, !.email = email, !.password = password]
     ELSE u : u \in table}

(* variant: whatever password the body holds is hashed and stored *)
adminModelUpdateUserByIdAlwaysHash(table, user_id, userData) ==
    LET existingUser == getUserByIdAdminQuery(table, user_id)
    IN  IF Len(existingUser) = 0
        THEN Threw(MsgArg("Error al actualizar usuario: Usuario con ID no encontrado",
                          <<ToString(user_id)>>))
        ELSE LET role == IF Has(userData, "role") /\ userData.role # ""
                         THEN toLowerCase(userData.role) ELSE existingUser[1].role
                 password == IF Has(userData, "password")
                             THEN bcryptHash(userData.password, SALT_ROUNDS)
                             ELSE existingUser[1].password
                 after == updateUserByIdQuery(table, role, existingUser[1].email,
                                              password, user_id)
             IN  [threw |-> FALSE, table |-> after,
                  value |-> [message |-> Msg("Usuario actualizado exitosamente"),
                             user |-> Project(CHOOSE u \in after : u.user_id = user_id,
                                              {"user_id", "role", "email"})]]

adminModelUpdateUserById(table, user_id, userData) ==
    LET existingUser == getUserByIdAdminQuery(table, user_id)
    IN  IF Len(existingUser) = 0
        THEN Threw(MsgArg("Error al actualizar usuario: Usuario con ID no encontrado",
                          <<ToString(user_id)>>))
        ELSE LET truthyRole == Has(userData, "role") /\ userData.role # ""
                 newPassword ==
                     IF Has(userData, "password") /\ userData.password # EmptyPassword
                     THEN bcryptHash(userData.password, SALT_ROUNDS)
                     ELSE existingUser[1].password
                 updateData ==
                     [role |-> IF truthyRole THEN toLowerCase(userData.role)
                               ELSE existingUser[1].role,
                      email |-> IF Has(userData, "email") /\ userData.email # EmptyString
                                THEN userData.email ELSE existingUser[1].email,
                      password |-> newPassword]
             IN  IF truthyRole /\ updateData.role \notin Roles
                 THEN Threw(MsgArg("Error al actualizar usuario: ",
                                   <<"Rol inválido. Los roles permitidos son: admin, hr, mkt">>))
                 ELSE LET after == updateUserByIdQuery(table, updateData.role,
                                       updateData.email, updateData.password, user_id)
                      IN  [threw |-> FALSE, table |-> after,
                           value |-> [message |-> Msg("Usuario actualizado exitosamente"),
                                      user |-> Project(
                                          CHOOSE u \in after : u.user_id = user_id,
                                          {"user_id", "role", "email"})]]

updateUserById(table, in, res) ==
    LET result == adminModelUpdateUserById(table, in.params.user_id, in.body)
    IN  IF result.threw
        THEN [table |-> table,
              res |-> Json(res, 400, [success |-> FALSE, error |-> result.message])]
        ELSE [table |-> result.table, res |-> Json(res, 200, result.value)]

-----------------------------------------------------------------------------
(* Routes: the middleware chain of each endpoint *)

Gates ==
    {Stage(g, <<>>) : g \in {"requireAdmin", "requireHR", "requireMarketing",
                             "isAuthenticated"}}
    \cup {Stage("hasRole", <<role>>) : role \in {"admin", "hr"}}
    \cup {Stage("hasAnyRole", roles) : roles \in {<<"admin", "mkt">>}}

Plain(mw) == Stage(mw, <<>>)

Routes ==
    { [name |-> "login", stages |-> <<Plain("login")>>],
      [name |-> "refresh", stages |-> <<Plain("refreshToken")>>],
      [name |-> "logout", stages |-> <<Plain("authenticate"), Plain("logout")>>],
      [name |-> "protected",
       stages |-> <<Plain("authenticate"), Plain("checkRefreshCookie"), Plain("handler")>>],
      [name |-> "getUserById", stages |-> <<Plain("getUserById")>>],
      [name |-> "deleteUserById", stages |-> <<Plain("deleteUserById")>>],
      [name |-> "updateUserById", stages |-> <<Plain("updateUserById")>>],
      [name |-> "renewalOnly", stages |-> <<Plain("checkRefreshCookie"), Plain("handler")>>] }
    \cup { [name |-> "gated",
            stages |-> <<Plain("authenticate"), Plain("checkRefreshCookie"), g,
                         Plain("handler")>>] : g \in Gates }
    \cup { [name |-> "gatedNoRenewal",
            stages |-> <<Plain("authenticate"), g, Plain("handler")>>] :
                g \in Gates }
    \cup { [name |-> "gateOnly", stages |-> <<g, Plain("handler")>>] : g \in Gates }

-----------------------------------------------------------------------------
(* Requests *)

NoInput ==
    [headers |-> <<>>, query |-> <<>>, cookies |-> <<>>, body |-> <<>>, params |-> <<>>,
     storeOk |-> TRUE]

IdleReq ==
    [route |-> "none", stages |-> <<>>, chain |-> <<>>, in |-> NoInput, ctx |-> <<>>,
     res |-> NoResponse, reached |-> FALSE]

(* what a client can present as a bearer token *)
Candidates(token) ==
    IF token = Undefined THEN {Garbage} ELSE {token, Tamper(token), Garbage}

(* where and what: every candidate in the Authorization header, the held *)
(* token in each of the other locations, or no token at all              *)
BearerInputs(token) ==
    {[source |-> "header", token |-> c] : c \in Candidates(token)}
    \cup {[source |-> s, token |-> token] :
              s \in IF token = Undefined THEN {} ELSE {"query", "cookie", "body"}}
    \cup {[source |-> "none", token |-> Undefined]}

WithToken(in, source, token) ==
    CASE source = "header" ->
            [in EXCEPT !.headers = [authorization |-> [scheme |-> "Bearer", token |-> token]]]
      [] source = "query" -> [in EXCEPT !.query = [token |-> token]]
      [] source = "cookie" -> [in EXCEPT !.cookies = [access_token |-> token] @@ @]
      [] source = "body" -> [in EXCEPT !.body = [token |-> token]]
      [] source = "none" -> in

(* the browser attaches the refresh cookie it holds *)
WithJar(in, cookie) ==
    IF cookie = NoCookie THEN in
    ELSE [in EXCEPT !.cookies = @ @@ [refresh_token |-> cookie.value]]

Active(r) == reqs[r].chain # <<>> /\ ~reqs[r].res.sent

AtStage(r, mws) == Active(r) /\ Head(reqs[r].chain).mw \in mws

Init ==
    /\ NODE_ENV \in {"production", "development"}
    /\ db = InitialUsers
    /\ now = 0
    /\ ticks = 0
    /\ held = Undefined
    /\ jar = NoCookie
    /\ reqs = [r \in {1} |-> IdleReq]
    /\ atLogout = Undefined

Begin(r, route, in) ==
    /\ reqs[r] = IdleReq
    /\ reqs' = [reqs EXCEPT ![r] =
                   [route |-> route.name, stages |-> route.stages, chain |-> route.stages,
                    in |-> WithJar(in, jar), ctx |-> <<>>, res |-> NoResponse,
                    reached |-> FALSE]]
    /\ UNCHANGED <<NODE_ENV, db, now, ticks, held, jar, atLogout>>

StartLogin(r) ==
    \E body \in LoginBodies, storeOk \in BOOLEAN :
        /\ ~storeOk => body \in {[email |-> AnaEmail, password |-> AnaPassword],
                                 [email |-> AnaEmail]}
        /\ Begin(r, CHOOSE rt \in Routes : rt.name = "login",
              [NoInput EXCEPT !.body = body, !.storeOk = storeOk])

(* POST /refresh with the cookie the browser holds, or with a forged copy *)
StartRefresh(r) ==
    \E storeOk \in BOOLEAN, forged \in BOOLEAN :
        /\ forged => jar # NoCookie /\ storeOk
        /\ Begin(r, CHOOSE rt \in Routes : rt.name = "refresh",
                 [NoInput EXCEPT !.storeOk = storeOk,
                                 !.cookies = IF forged
                                             THEN [refresh_token |-> Tamper(jar.value)]
                                             ELSE <<>>])

StartAdmin(r) ==
    \E route \in {rt \in Routes : rt.name \in {"getUserById", "deleteUserById"}},
       user_id \in AdminTargets, storeOk \in BOOLEAN :
        Begin(r, route, [NoInput EXCEPT !.params = [user_id |-> user_id],
                                         !.storeOk = storeOk])

StartBearer(r) ==
    \E route \in {rt \in Routes : rt.stages[1].mw = "authenticate"},
       b \in BearerInputs(held) :
        /\ b.source \in {"query", "cookie", "body"} => route.name = "protected"
        /\ route.name \in {"gated", "gatedNoRenewal"} =>
               b.source = "header" /\ b.token = held
        /\ Begin(r, route, WithToken(NoInput, b.source, b.token))

(* a gate mounted without authenticate in front: req.user was never set *)
StartGateOnly(r) ==
    \E route \in {rt \in Routes : rt.name = "gateOnly"} : Begin(r, route, NoInput)

(* the response leaves the server: the client keeps the cookie and the token; *)
(* atLogout remembers the bearer token and the identity of the logout that    *)
(* ended the current session                                                  *)
Finish(r, ctx, res, chain, reached) ==
    /\ reqs' = [reqs EXCEPT ![r].ctx = ctx, ![r].res = res, ![r].chain = chain,
                            ![r].reached = reached]
    /\ jar' = IF res.sent THEN ApplyCookies(jar, res.cookies) ELSE jar
    /\ held' = IF res.sent /\ res.status = 200 /\ Has(res.body, "accessToken")
               THEN res.body.accessToken ELSE held
    /\ atLogout' = IF res.sent /\ res.status = 200 /\ reqs[r].route = "logout"
                       /\ ~NoUser(ctx)
                    THEN [token |-> ctx.token, user |-> ctx.user]
                    ELSE IF res.sent /\ res.status = 200 /\ reqs[r].route = "login"
                    THEN Undefined
                    ELSE atLogout

Middleware(r, out) ==
    Finish(r, out.ctx, out.res, IF out.next THEN Tail(reqs[r].chain) ELSE reqs[r].chain,
           FALSE)

Handler(r, res) == Finish(r, reqs[r].ctx, res, Tail(reqs[r].chain), TRUE)

Login(r) ==
    /\ AtStage(r, {"login"})
    /\ Handler(r, login(NODE_ENV, db, now, reqs[r].in, reqs[r].res))
    /\ UNCHANGED <<NODE_ENV, db, now, ticks>>

Authenticate(r) ==
    /\ AtStage(r, {"authenticate"})
    /\ Middleware(r, authenticate(NODE_ENV, now, reqs[r].in, reqs[r].ctx, reqs[r].res))
    /\ UNCHANGED <<NODE_ENV, db, now, ticks>>

CheckRefreshCookie(r) ==
    /\ AtStage(r, {"checkRefreshCookie"})
    /\ Middleware(r, checkRefreshCookie(NODE_ENV, now, reqs[r].in, reqs[r].ctx, reqs[r].res))
    /\ UNCHANGED <<NODE_ENV, db, now, ticks>>

Gate(r) ==
    /\ AtStage(r, GateNames)
    /\ Middleware(r, gate(Head(reqs[r].chain), reqs[r].ctx, reqs[r].res))
    /\ UNCHANGED <<NODE_ENV, db, now, ticks>>

ProtectedHandler(r) ==
    /\ AtStage(r, {"handler"})
    /\ Handler(r, protectedHandler(reqs[r].ctx, reqs[r].res))
    /\ UNCHANGED <<NODE_ENV, db, now, ticks>>

Logout(r) ==
    /\ AtStage(r, {"logout"})
    /\ Handler(r, logout(NODE_ENV, reqs[r].res))
    /\ UNCHANGED <<NODE_ENV, db, now, ticks>>

RefreshToken(r) ==
    /\ AtStage(r, {"refreshToken"})
    /\ Handler(r, refreshToken(NODE_ENV, db, now, reqs[r].in, reqs[r].res))
    /\ UNCHANGED <<NODE_ENV, db, now, ticks>>

GetUserById(r) ==
    /\ AtStage(r, {"getUserById"})
    /\ Handler(r, getUserById(db, reqs[r].in, reqs[r].res))
    /\ UNCHANGED <<NODE_ENV, db, now, ticks>>

DeleteUserById(r) ==
    /\ AtStage(r, {"deleteUserById"})
    /\ LET out == deleteUserById(db, reqs[r].in, reqs[r].res)
       IN  /\ Handler(r, out.res)
           /\ db' = out.table
    /\ UNCHANGED <<NODE_ENV, now, ticks>>

(* the client replaces its access token by the one of X-New-Access-Token *)
AdoptNewAccessToken(r) ==
    /\ reqs[r].res.sent
    /\ Has(reqs[r].res.headers, "XNewAccessToken")
    /\ held # reqs[r].res.headers.XNewAccessToken
    /\ held' = reqs[r].res.headers.XNewAccessToken
    /\ UNCHANGED <<NODE_ENV, db, now, ticks, jar, reqs, atLogout>>

(* the exchange is over and the connection is free for the next request *)
Close(r) ==
    /\ reqs[r].res.sent
    /\ reqs' = [reqs EXCEPT ![r] = IdleReq]
    /\ UNCHANGED <<NODE_ENV, db, now, ticks, held, jar, atLogout>>

Tick ==
    /\ ticks < MaxTicks
    /\ \E d \in {1, ACCESS_TTL, REFRESH_TTL} : now' = now + d
    /\ ticks' = ticks + 1
    /\ UNCHANGED <<NODE_ENV, db, held, jar, reqs, atLogout>>

Next ==
    \/ \E r \in DOMAIN reqs : StartLogin(r)
    \/ \E r \in DOMAIN reqs : StartRefresh(r)
    \/ \E r \in DOMAIN reqs : StartAdmin(r)
    \/ \E r \in DOMAIN reqs : StartBearer(r)
    \/ \E r \in DOMAIN reqs : StartGateOnly(r)
    \/ \E r \in DOMAIN reqs : Login(r)
    \/ \E r \in DOMAIN reqs : Authenticate(r)
    \/ \E r \in DOMAIN reqs : CheckRefreshCookie(r)
    \/ \E r \in DOMAIN reqs : Gate(r)
    \/ \E r \in DOMAIN reqs : ProtectedHandler(r)
    \/ \E r \in DOMAIN reqs : Logout(r)
    \/ \E r \in DOMAIN reqs : RefreshToken(r)
    \/ \E r \in DOMAIN reqs : GetUserById(r)
    \/ \E r \in DOMAIN reqs : DeleteUserById(r)
    \/ \E r \in DOMAIN reqs : AdoptNewAccessToken(r)
    \/ \E r \in DOMAIN reqs : Close(r)
    \/ Tick

Spec == Init /\ [][Next]_vars

-----------------------------------------------------------------------------
(* Token location on its own: one request on the protected route whose four *)
(* token locations are each absent, empty or filled.                         *)

TokenOf(user) ==
    createAccessToken([user_id |-> user.user_id, role |-> user.role, email |-> user.email,
                       name |-> "", surname |-> ""], 0)

AnaToken == TokenOf(CHOOSE u \in InitialUsers : u.user_id = 1)

BeaToken == TokenOf(CHOOSE u \in InitialUsers : u.user_id = 2)

HeaderInputs ==
    {<<>>} \cup {[authorization |-> [scheme |-> s, token |-> tk]] :
                     s \in {"Bearer", "Basic"}, tk \in {EmptyTok, AnaToken}}

FieldInputs(f, token) == {<<>>} \cup {[x \in {f} |-> tk] : tk \in {EmptyTok, token}}

LocateInputs ==
    {[NoInput EXCEPT !.headers = h, !.query = q, !.cookies = c, !.body = b] :
         h \in HeaderInputs, q \in FieldInputs("token", BeaToken),
         c \in FieldInputs("access_token", AnaToken), b \in FieldInputs("token", BeaToken)}

InitLocate ==
    /\ NODE_ENV \in {"production", "development"}
    /\ db = InitialUsers
    /\ now = 0
    /\ ticks = 0
    /\ held = Undefined
    /\ jar = NoCookie
    /\ atLogout = Undefined
    /\ \E in \in LocateInputs :
           LET route == CHOOSE rt \in Routes : rt.name = "protected"
           IN  reqs = [r \in {1} |->
                          [route |-> route.name, stages |-> route.stages,
                           chain |-> route.stages, in |-> in, ctx |-> <<>>,
                           res |-> NoResponse, reached |-> FALSE]]

NextLocate ==
    \/ \E r \in DOMAIN reqs : Authenticate(r)
    \/ \E r \in DOMAIN reqs : CheckRefreshCookie(r)
    \/ \E r \in DOMAIN reqs : ProtectedHandler(r)

SpecLocate == InitLocate /\ [][NextLocate]_vars

-----------------------------------------------------------------------------
(* Concurrent requests of one client: MaxInFlight requests in flight at    *)
(* once, each taking its middleware steps in any interleaving with the      *)
(* others.                                                                   *)

InitConcurrent ==
    /\ NODE_ENV \in {"production", "development"}
    /\ db = InitialUsers
    /\ now = 0
    /\ ticks = 0
    /\ held = Undefined
    /\ jar = NoCookie
    /\ reqs = [r \in 1..MaxInFlight |-> IdleReq]
    /\ atLogout = Undefined

(* the client opens its session *)
StartSession(r) ==
    /\ held = Undefined
    /\ \A o \in DOMAIN reqs : reqs[o] = IdleReq
    /\ Begin(r, CHOOSE rt \in Routes : rt.name = "login",
             [NoInput EXCEPT !.body = [email |-> AnaEmail, password |-> AnaPassword]])

(* a protected request with the access token and the cookie the client holds *)
StartProtected(r) ==
    /\ held # Undefined
    /\ Begin(r, CHOOSE rt \in Routes : rt.name = "protected",
             WithToken(NoInput, "header", held))

NextConcurrent ==
    \/ \E r \in DOMAIN reqs : StartSession(r)
    \/ \E r \in DOMAIN reqs : StartProtected(r)
    \/ \E r \in DOMAIN reqs : Login(r)
    \/ \E r \in DOMAIN reqs : Authenticate(r)
    \/ \E r \in DOMAIN reqs : CheckRefreshCookie(r)
    \/ \E r \in DOMAIN reqs : ProtectedHandler(r)
    \/ \E r \in DOMAIN reqs : Close(r)
    \/ Tick

SpecConcurrent == InitConcurrent /\ [][NextConcurrent]_vars

-----------------------------------------------------------------------------
(* Account administration next to a user session: an admin edits the       *)
(* record of user 2 while that user logs in and uses the protected route.   *)

UpdateBodies ==
    {r @@ p : r \in {<<>>, [role |-> "Admin"], [role |-> "boss"]},
              p \in {<<>>, [password |-> EmptyPassword], [password |-> NewPassword]}}

StartUpdate(r) ==
    \E body \in UpdateBodies, user_id \in AdminTargets :
        Begin(r, CHOOSE rt \in Routes : rt.name = "updateUserById",
              [NoInput EXCEPT !.params = [user_id |-> user_id], !.body = body])

UpdateUserById(r) ==
    /\ AtStage(r, {"updateUserById"})
    /\ LET out == updateUserById(db, reqs[r].in, reqs[r].res)
       IN  /\ Handler(r, out.res)
           /\ db' = out.table
    /\ UNCHANGED <<NODE_ENV, now, ticks>>

(* user 2 logs in with the old, the new or an empty password *)
StartUserLogin(r) ==
    \E p \in {BeaPassword, NewPassword, EmptyPassword} :
        Begin(r, CHOOSE rt \in Routes : rt.name = "login",
              [NoInput EXCEPT !.body = [email |-> BeaEmail, password |-> p]])

NextAdmin ==
    \/ \E r \in DOMAIN reqs : StartUpdate(r)
    \/ \E r \in DOMAIN reqs : UpdateUserById(r)
    \/ \E r \in DOMAIN reqs : StartUserLogin(r)
    \/ \E r \in DOMAIN reqs : Login(r)
    \/ \E r \in DOMAIN reqs : StartProtected(r)
    \/ \E r \in DOMAIN reqs : Authenticate(r)
    \/ \E r \in DOMAIN reqs : CheckRefreshCookie(r)
    \/ \E r \in DOMAIN reqs : ProtectedHandler(r)
    \/ \E r \in DOMAIN reqs : Close(r)
    \/ Tick

SpecAdmin == Init /\ [][NextAdmin]_vars

-----------------------------------------------------------------------------
(* The Renewal Interceptor on its own: one request that presents the       *)
(* access token of user 1, fresh or expired, together with every kind of    *)
(* refresh cookie a client can send.                                        *)

AnaRefresh ==
    createRefreshToken([user_id |-> 1, email |-> AnaEmail, role |-> "admin"], 0)

RenewalCookies ==
    {<<>>} \cup {[refresh_token |-> v] :
                     v \in {EmptyTok, AnaRefresh, Tamper(AnaRefresh), Garbage, AnaToken}}

InitRenewal ==
    /\ NODE_ENV \in {"production", "development"}
    /\ db = InitialUsers
    /\ now \in {0, ACCESS_TTL, REFRESH_TTL}
    /\ ticks = 0
    /\ held = AnaToken
    /\ atLogout = Undefined
    /\ \E cookies \in RenewalCookies,
          route \in {rt \in Routes : rt.name \in {"protected", "gated", "renewalOnly"}} :
           /\ jar = IF Truthy(cookies, "refresh_token")
                    THEN [value |-> cookies.refresh_token, path |-> "/api"]
                    ELSE NoCookie
           /\ reqs = [r \in {1} |->
                         [route |-> route.name, stages |-> route.stages,
                          chain |-> route.stages,
                          in |-> [WithToken(NoInput, "header", AnaToken)
                                      EXCEPT !.cookies = cookies],
                          ctx |-> <<>>, res |-> NoResponse, reached |-> FALSE]]

NextRenewal ==
    \/ \E r \in DOMAIN reqs : Authenticate(r)
    \/ \E r \in DOMAIN reqs : CheckRefreshCookie(r)
    \/ \E r \in DOMAIN reqs : Gate(r)
    \/ \E r \in DOMAIN reqs : ProtectedHandler(r)

SpecRenewal == InitRenewal /\ [][NextRenewal]_vars

-----------------------------------------------------------------------------
(* Properties *)

Sent(r) == reqs[r].res.sent

(* the refresh tokens a response sets as cookie *)
CookiesSet(res) ==
    {res.cookies[i].value : i \in {j \in 1..Len(res.cookies) :
                                       res.cookies[j].op = "set"
                                       /\ res.cookies[j].name = "refresh_token"}}

UnknownEmail(table, body) == \A u \in table : u.email # body.email

WrongPassword(table, body) ==
    \E u \in table : u.email = body.email /\ ~bcryptCompare(body.password, u.password)

Matches(table, body) ==
    {u \in table : u.email = body.email /\ bcryptCompare(body.password, u.password)}

(* what a client can tell apart: status, error code, message, cookies *)
Signal(res) ==
    [status |-> res.status, message |-> res.body.message, cookies |-> res.cookies]
    @@ Optional(res.body, "code", "code")

LoginAnswered(r) ==
    /\ reqs[r].route = "login" /\ Sent(r) /\ reqs[r].in.storeOk
    /\ Has(reqs[r].in.body, "email") /\ Has(reqs[r].in.body, "password")

(* C1: enumeration safety of login.  A validated login that fails on an     *)
(* unknown email or on a wrong password is answered with the status, code,  *)
(* message and cookies of every other such failure, and sets no cookie.     *)
C1_EnumerationSafety ==
    \A r \in DOMAIN reqs :
        (/\ LoginAnswered(r)
         /\ loginValidator(reqs[r].in.body)
         /\ UnknownEmail(db, reqs[r].in.body) \/ WrongPassword(db, reqs[r].in.body))
        => /\ reqs[r].res.cookies = <<>>
           /\ reqs[r].res.status # 200
           /\ \A other \in LoginBodies :
                  (/\ loginValidator(other)
                   /\ UnknownEmail(db, other) \/ WrongPassword(db, other))
                  => Signal(login(NODE_ENV, db, now, [reqs[r].in EXCEPT !.body = other],
                                  NoResponse))
                     = Signal(reqs[r].res)

C1_Witness ==
    \E r \in DOMAIN reqs :
        /\ LoginAnswered(r)
        /\ loginValidator(reqs[r].in.body)
        /\ UnknownEmail(db, reqs[r].in.body)
        /\ reqs[r].res.status = 401
        /\ \E other \in LoginBodies : loginValidator(other) /\ WrongPassword(db, other)

(* C2: a login with the email and password of a stored record succeeds, and *)
(* the access token, the refresh token and the user object of the response  *)
(* all carry the user_id of that record.                                     *)
C2_LoginCarriesUserId ==
    \A r \in DOMAIN reqs :
        LoginAnswered(r) =>
            \A u \in Matches(db, reqs[r].in.body) :
                /\ reqs[r].res.status = 200
                /\ reqs[r].res.body.success
                /\ LET access == reqs[r].res.body.accessToken
                       va == verifyAccessToken(access, access.iat)
                   IN  va.ok /\ Has(va.claims, "user_id") /\ va.claims.user_id = u.user_id
                /\ CookiesSet(reqs[r].res) # {}
                /\ \A refresh \in CookiesSet(reqs[r].res) :
                       LET vr == verifyRefreshToken(refresh, refresh.iat)
                       IN  vr.ok /\ Has(vr.claims, "user_id")
                           /\ vr.claims.user_id = u.user_id
                /\ reqs[r].res.body.user.user_id = u.user_id

C2_Witness ==
    \E r \in DOMAIN reqs :
        /\ LoginAnswered(r)
        /\ Matches(db, reqs[r].in.body) # {}
        /\ reqs[r].res.status = 200
        /\ CookiesSet(reqs[r].res) # {}

Renewed(r) == Has(reqs[r].res.headers, "XNewAccessToken")

(* C3: no token is issued for a deleted account.  Whenever the Renewal      *)
(* Interceptor mints an access token, the account the token names (by its   *)
(* email claim) is in the credential store at that moment.                  *)
C3_NoTokenForDeletedAccount ==
    [][\A r \in DOMAIN reqs :
           (~Renewed(r) /\ Has(reqs'[r].res.headers, "XNewAccessToken"))
           => \E u \in db :
                  u.email = reqs'[r].res.headers.XNewAccessToken.payload.email]_vars

(* C4: rotation on renewal.  A response that carries X-New-Access-Token     *)
(* also sets the refresh_token cookie, to a value other than the one sent.  *)
C4_RotationOnRenewal ==
    \A r \in DOMAIN reqs :
        (Sent(r) /\ Renewed(r))
        => /\ CookiesSet(reqs[r].res) # {}
           /\ \A refresh \in CookiesSet(reqs[r].res) :
                  refresh # reqs[r].in.cookies.refresh_token

(* C5: transparent renewal.  With an expired access token and a valid       *)
(* refresh cookie the protected handler is reached, X-New-Access-Token      *)
(* holds the token attached to the request, and the request is              *)
(* authenticated as the user of the refresh token's user_id claim.          *)
C5_RenewalIdentity ==
    \A r \in DOMAIN reqs :
        (reqs[r].route = "protected" /\ Sent(r) /\ Renewed(r))
        => /\ reqs[r].reached /\ reqs[r].res.status = 200
           /\ reqs[r].res.headers.XNewAccessToken = reqs[r].ctx.token
           /\ ~NoUser(reqs[r].ctx)
           /\ Has(reqs[r].ctx.user, "id_user")
           /\ reqs[r].ctx.user.id_user = reqs[r].in.cookies.refresh_token.payload.user_id

(* the fields of a JSON body that hold numbers, booleans or plain strings *)
ScalarFields == {"success", "code", "expiresIn"}

IsRefreshToken(v) == Has(v, "kind") /\ v.kind = "refresh"

(* C6: the refresh token travels only in the refresh_token cookie: no JSON  *)
(* body of any response holds a refresh token.                              *)
C6_RefreshTokenNotInBody ==
    \A r \in DOMAIN reqs :
        \A f \in DOMAIN reqs[r].res.body \ ScalarFields :
            ~IsRefreshToken(reqs[r].res.body[f])

C6_Witness ==
    \E r \in DOMAIN reqs :
        /\ Sent(r) /\ reqs[r].route = "login"
        /\ CookiesSet(reqs[r].res) # {}
        /\ Has(reqs[r].res.body, "accessToken")

(* the tokens a response hands out: body, header and cookie *)
TokensOf(res) ==
    CookiesSet(res)
    \cup (IF Has(res.body, "accessToken") THEN {res.body.accessToken} ELSE {})
    \cup (IF Has(res.headers, "XNewAccessToken") THEN {res.headers.XNewAccessToken} ELSE {})

(* C7: the password hash stays in the credential store: no token handed    *)
(* out and no user object of a response body has a password field.         *)
C7_HashNeverLeaves ==
    \A r \in DOMAIN reqs :
        /\ \A token \in TokensOf(reqs[r].res) : ~Has(token.payload, "password")
        /\ \A f \in DOMAIN reqs[r].res.body \cap {"user", "data", "deletedUser"} :
               ~Has(reqs[r].res.body[f], "password")

LogoutSuccess(env, res) ==
    /\ res.status = 200
    /\ res.body = [success |-> TRUE, message |-> Msg("Sesión cerrada exitosamente.")]
    /\ res.cookies = <<ClearCookie("refresh_token", ClearCookieOptions(env))>>

(* C8: every request to the logout route, whatever its access token, is     *)
(* answered with the 200 success body and a cleared refresh cookie.         *)
C8_LogoutAlwaysSucceeds ==
    \A r \in DOMAIN reqs :
        (reqs[r].route = "logout" /\ Sent(r)) => LogoutSuccess(NODE_ENV, reqs[r].res)

Rejected(res, code) ==
    /\ res.status = 401 /\ res.body.code = code /\ ~res.body.success
    /\ res.cookies = <<>>

(* C8 as amended: on the logout route a correctly signed access token that  *)
(* names a user, unexpired or expired, gets the 200 success body and the    *)
(* cleared refresh cookie; no token gets 401 TOKEN_REQUIRED, a tampered or  *)
(* malformed token 401 INVALID_TOKEN, an unexpired token without user       *)
(* identifier 401 INVALID_TOKEN_FORMAT, and these leave the cookie alone.   *)
C8_LogoutBehindAuthenticate ==
    \A r \in DOMAIN reqs :
        (reqs[r].route = "logout" /\ Sent(r)) =>
            LET token == LocateToken(reqs[r].in).token
            IN  IF token = Undefined \/ token = EmptyTok
                THEN Rejected(reqs[r].res, "TOKEN_REQUIRED") /\ ~reqs[r].reached
                ELSE IF ~IsToken(token) \/ token.sig # "access"
                THEN Rejected(reqs[r].res, "INVALID_TOKEN") /\ ~reqs[r].reached
                ELSE IF Has(token.payload, "user_id") \/ Has(token.payload, "id_user")
                THEN LogoutSuccess(NODE_ENV, reqs[r].res) /\ reqs[r].reached
                ELSE IF Has(reqs[r].ctx, "tokenExpired")
                THEN /\ reqs[r].ctx.tokenExpired
                     /\ LogoutSuccess(NODE_ENV, reqs[r].res) /\ reqs[r].reached
                ELSE Rejected(reqs[r].res, "INVALID_TOKEN_FORMAT") /\ ~reqs[r].reached

C8_Witness ==
    \E r \in DOMAIN reqs :
        /\ reqs[r].route = "logout" /\ Sent(r)
        /\ Has(reqs[r].ctx, "tokenExpired") /\ reqs[r].ctx.tokenExpired
        /\ LogoutSuccess(NODE_ENV, reqs[r].res)
        /\ Has(reqs[r].in.cookies, "refresh_token")
        /\ jar = NoCookie

(* C9: logout does not revoke bearer credentials.  After a logout, when     *)
(* authenticate handles a request that presents the access token of the     *)
(* logged-out session before its expiry, it sends no response and attaches  *)
(* the identity it attached before the logout.                              *)
C9_LogoutKeepsAccessToken ==
    [][\A r \in DOMAIN reqs :
           (/\ AtStage(r, {"authenticate"})
            /\ reqs'[r] # reqs[r]
            /\ atLogout # Undefined
            /\ LocateToken(reqs[r].in).token = atLogout.token
            /\ now < atLogout.token.exp)
           => /\ ~reqs'[r].res.sent
              /\ reqs'[r].chain = Tail(reqs[r].chain)
              /\ reqs'[r].ctx.tokenExpired = FALSE
              /\ reqs'[r].ctx.user = atLogout.user]_vars

C9_Witness ==
    \E r \in DOMAIN reqs :
        /\ atLogout # Undefined
        /\ reqs[r].route = "protected" /\ Sent(r) /\ reqs[r].reached
        /\ LocateToken(reqs[r].in).token = atLogout.token
        /\ reqs[r].ctx.user = atLogout.user
        /\ jar = NoCookie

(* the role gate of a route, if it has one *)
GateIndex(r) == {i \in 1..Len(reqs[r].stages) : reqs[r].stages[i].mw \in GateNames}

StoppedAtGate(r) ==
    Sent(r) /\ reqs[r].chain # <<>> /\ Head(reqs[r].chain).mw \in GateNames

PassedGate(r) ==
    \E i \in GateIndex(r) : Len(reqs[r].chain) <= Len(reqs[r].stages) - i

AllowedRoles(g) ==
    CASE g.mw = "requireAdmin" -> {"admin"}
      [] g.mw = "requireHR" -> {"hr"}
      [] g.mw = "requireMarketing" -> {"mkt"}
      [] g.mw = "isAuthenticated" -> Roles \cup {"user"}
      [] g.mw \in {"hasRole", "hasAnyRole"} -> {g.roles[i] : i \in 1..Len(g.roles)}

RoleCode(role) ==
    CASE role = "admin" -> "ADMIN_REQUIRED"
      [] role = "hr" -> "HR_REQUIRED"
      [] role = "mkt" -> "MARKETING_REQUIRED"
      [] role = "user" -> "USER_REQUIRED"

GateCode(g) ==
    IF g.mw \in {"hasRole", "hasAnyRole"} THEN "ROLE_REQUIRED"
    ELSE RoleCode(CHOOSE role \in AllowedRoles(g) : TRUE)

(* an authenticated identity passes its gate exactly when its role is allowed, *)
(* and a refusal is a 403 whose code is one of codes(gate)                     *)
RoleGating(codes(_)) ==
    \A r \in DOMAIN reqs :
        \A i \in GateIndex(r) :
            LET g == reqs[r].stages[i]
            IN  ~NoUser(reqs[r].ctx) =>
                    /\ PassedGate(r) => reqs[r].ctx.user.role \in AllowedRoles(g)
                    /\ StoppedAtGate(r) =>
                           /\ reqs[r].ctx.user.role \notin AllowedRoles(g)
                           /\ reqs[r].res.status = 403
                           /\ reqs[r].res.body.code \in codes(g)
                           /\ ~reqs[r].reached

RoleSpecificCodes(g) == {RoleCode(role) : role \in AllowedRoles(g)}

ActualCodes(g) == {GateCode(g)}

(* C10: an authenticated identity passes a gate iff its role is allowed; on *)
(* mismatch every gate, the hasRole and hasAnyRole factories included,      *)
(* answers 403 with the *_REQUIRED code of a role it requires.              *)
C10_RoleSpecificCodeEverywhere == RoleGating(RoleSpecificCodes)

(* C10 as amended: an authenticated identity passes a gate iff its role is  *)
(* allowed; on mismatch requireAdmin, requireHR and requireMarketing answer *)
(* 403 with ADMIN_REQUIRED, HR_REQUIRED and MARKETING_REQUIRED, and the     *)
(* hasRole and hasAnyRole factories answer 403 with the one code            *)
(* ROLE_REQUIRED.                                                           *)
C10_RoleGating == RoleGating(ActualCodes)

C10_Witness ==
    \E r \in DOMAIN reqs :
        /\ StoppedAtGate(r)
        /\ Head(reqs[r].chain).mw = "hasRole"
        /\ ~NoUser(reqs[r].ctx) /\ reqs[r].ctx.user.role = "hr"
        /\ reqs[r].res.status = 403 /\ reqs[r].res.body.code = "ROLE_REQUIRED"

(* C11: a role gate that finds no authenticated identity (req.user absent   *)
(* or null) answers 401 NOT_AUTHENTICATED, whatever role it requires, and   *)
(* the handler behind it is not invoked.                                    *)
C11_GateNeedsIdentity ==
    [][\A r \in DOMAIN reqs :
           (AtStage(r, GateNames) /\ NoUser(reqs[r].ctx) /\ reqs'[r] # reqs[r])
           => /\ reqs'[r].res.sent
              /\ reqs'[r].res.status = 401
              /\ reqs'[r].res.body.code = "NOT_AUTHENTICATED"
              /\ ~reqs'[r].res.body.success
              /\ reqs'[r].chain = reqs[r].chain
              /\ ~reqs'[r].reached]_vars

C11_Witness ==
    \E r \in DOMAIN reqs :
        /\ StoppedAtGate(r)
        /\ Head(reqs[r].chain).mw = "hasAnyRole"
        /\ Has(reqs[r].ctx, "user") /\ reqs[r].ctx.user = Null
        /\ reqs[r].res.status = 401 /\ reqs[r].res.body.code = "NOT_AUTHENTICATED"
        /\ ~reqs[r].reached

(* the request goes through authenticate first *)
BehindAuthenticate(r) ==
    reqs[r].stages # <<>> /\ reqs[r].stages[1].mw = "authenticate"

(* a non-empty bearer token that is not a correctly signed access token *)
StructurallyInvalid(token) ==
    /\ token # Undefined /\ token # EmptyTok
    /\ ~IsToken(token) \/ token.sig # "access"

ValidRefreshCookie(r) ==
    /\ Has(reqs[r].in.cookies, "refresh_token")
    /\ verifyRefreshToken(reqs[r].in.cookies.refresh_token, now).ok

(* C12: a tampered or malformed access token is hard-rejected.  The request *)
(* never gets past authenticate, is never marked as expired, gets no renewed *)
(* token, and its response is 401 INVALID_TOKEN, with or without a valid     *)
(* refresh cookie.                                                           *)
C12_InvalidTokenHardRejected ==
    \A r \in DOMAIN reqs :
        (BehindAuthenticate(r) /\ StructurallyInvalid(LocateToken(reqs[r].in).token))
        => /\ reqs[r].chain = reqs[r].stages
           /\ ~Has(reqs[r].ctx, "tokenExpired")
           /\ ~Renewed(r)
           /\ ~reqs[r].reached
           /\ Sent(r) => Rejected(reqs[r].res, "INVALID_TOKEN")

C12_Witness ==
    \E r \in DOMAIN reqs :
        /\ reqs[r].route = "protected" /\ Sent(r)
        /\ held # Undefined /\ LocateToken(reqs[r].in).token = Tamper(held)
        /\ ValidRefreshCookie(r)
        /\ Rejected(reqs[r].res, "INVALID_TOKEN")

(* C13: an expired access token with a valid signature is not rejected by   *)
(* authenticate.  Its step sends no response, marks the request as expired, *)
(* attaches the raw token and no identity, and hands over to the next stage. *)
C13_ExpiredDefersToRenewal ==
    [][\A r \in DOMAIN reqs :
           LET token == LocateToken(reqs[r].in).token
           IN  (/\ AtStage(r, {"authenticate"})
                /\ reqs'[r] # reqs[r]
                /\ IsToken(token) /\ token.sig = "access" /\ now >= token.exp)
               => /\ ~reqs'[r].res.sent
                  /\ reqs'[r].res = reqs[r].res
                  /\ reqs'[r].chain = Tail(reqs[r].chain)
                  /\ reqs'[r].ctx.tokenExpired = TRUE
                  /\ reqs'[r].ctx.token = token
                  /\ NoUser(reqs'[r].ctx)]_vars

C13_Witness ==
    \E r \in DOMAIN reqs :
        /\ reqs[r].route = "protected" /\ ~Sent(r)
        /\ reqs[r].chain = Tail(reqs[r].stages)
        /\ Has(reqs[r].ctx, "tokenExpired") /\ reqs[r].ctx.tokenExpired
        /\ reqs[r].ctx.token = held /\ now >= held.exp
        /\ reqs[r].ctx.user = Null

(* the candidates of a request in probing order: header (Bearer), query,   *)
(* cookie, body                                                             *)
TokenCandidates(in) ==
    <<IF Has(in.headers, "authorization") /\ in.headers.authorization.scheme = "Bearer"
      THEN in.headers.authorization.token ELSE Undefined,
      IF Has(in.query, "token") THEN in.query.token ELSE Undefined,
      IF Has(in.cookies, "access_token") THEN in.cookies.access_token ELSE Undefined,
      IF Has(in.body, "token") THEN in.body.token ELSE Undefined>>

NonEmptyAt(in) ==
    {i \in 1..4 : TokenCandidates(in)[i] \notin {Undefined, EmptyTok}}

FirstNonEmpty(in) ==
    IF NonEmptyAt(in) = {} THEN Undefined
    ELSE TokenCandidates(in)[CHOOSE i \in NonEmptyAt(in) : \A j \in NonEmptyAt(in) : i <= j]

(* C14: token location.  authenticate verifies the first non-empty          *)
(* candidate in the order header, query, cookie, body, whatever the other   *)
(* locations hold, and answers 401 TOKEN_REQUIRED only when no location     *)
(* holds a non-empty token.                                                 *)
C14_FirstNonEmptyWins ==
    \A r \in DOMAIN reqs :
        (BehindAuthenticate(r) /\ (Sent(r) \/ reqs[r].chain # reqs[r].stages)) =>
            IF FirstNonEmpty(reqs[r].in) = Undefined
            THEN /\ reqs[r].chain = reqs[r].stages
                 /\ Rejected(reqs[r].res, "TOKEN_REQUIRED")
            ELSE /\ Sent(r) /\ Has(reqs[r].res.body, "code")
                        => reqs[r].res.body.code # "TOKEN_REQUIRED"
                 /\ (reqs[r].chain # reqs[r].stages /\ ~Renewed(r))
                        => reqs[r].ctx.token = FirstNonEmpty(reqs[r].in)

(* C15: refresh tokens are not single-use.  Whenever the interceptor handles *)
(* a request marked as expired whose refresh cookie verifies, it renews:     *)
(* it hands a fresh access token to that request and lets it go on,          *)
(* whatever the other requests in flight with the same cookie have done.     *)
C15_RenewalNotSingleUse ==
    [][\A r \in DOMAIN reqs :
           (/\ AtStage(r, {"checkRefreshCookie"})
            /\ reqs'[r] # reqs[r]
            /\ Has(reqs[r].ctx, "tokenExpired") /\ reqs[r].ctx.tokenExpired
            /\ ValidRefreshCookie(r))
           => /\ ~reqs'[r].res.sent
              /\ reqs'[r].chain = Tail(reqs[r].chain)
              /\ Has(reqs'[r].res.headers, "XNewAccessToken")
              /\ verifyAccessToken(reqs'[r].res.headers.XNewAccessToken, now).ok
              /\ reqs'[r].ctx.token = reqs'[r].res.headers.XNewAccessToken]_vars

(* two requests with the same expired token and the same cookie: one is    *)
(* renewed and answered, the other is renewed too and on its way to the     *)
(* handler                                                                  *)
C15_Witness ==
    \E r1, r2 \in DOMAIN reqs :
        /\ r1 # r2
        /\ reqs[r1].route = "protected" /\ reqs[r2].route = "protected"
        /\ reqs[r1].in = reqs[r2].in
        /\ ValidRefreshCookie(r1)
        /\ Sent(r1) /\ Renewed(r1) /\ reqs[r1].res.status = 200 /\ reqs[r1].reached
        /\ ~Sent(r2) /\ Renewed(r2) /\ AtStage(r2, {"handler"})

UserOf(table, token) == {u \in table : u.user_id = token.payload.user_id}

(* C16: POST /refresh with a refresh_token cookie that verifies and whose   *)
(* user is in the store answers 200 with success, a new accessToken,        *)
(* expiresIn 900 and the user object, and sets a new refresh_token cookie.  *)
C16_RefreshEndpointRenews ==
    [][\A r \in DOMAIN reqs :
           (/\ AtStage(r, {"refreshToken"})
            /\ reqs'[r] # reqs[r]
            /\ reqs[r].in.storeOk
            /\ ValidRefreshCookie(r)
            /\ UserOf(db, reqs[r].in.cookies.refresh_token) # {})
           => /\ reqs'[r].res.sent
              /\ reqs'[r].res.status = 200
              /\ reqs'[r].res.body.success
              /\ Has(reqs'[r].res.body, "accessToken")
              /\ verifyAccessToken(reqs'[r].res.body.accessToken, now).ok
              /\ reqs'[r].res.body.expiresIn = ACCESS_TTL
              /\ Has(reqs'[r].res.body, "user")
              /\ CookiesSet(reqs'[r].res) # {}]_vars

Refused(res, code, cookies) ==
    /\ res.sent /\ res.status = 401 /\ ~res.body.success
    /\ Has(res.body, "code") /\ res.body.code = code
    /\ res.cookies = cookies
    /\ TokensOf(res) = {}

(* C17: POST /refresh hands out nothing for an unusable refresh token: no   *)
(* cookie gets 401 REFRESH_TOKEN_REQUIRED, an expired token 401             *)
(* SESSION_EXPIRED with the cookie cleared, any other verification failure  *)
(* 401 INVALID_REFRESH_TOKEN, and a verified token whose user is no longer  *)
(* in the store 401 USER_NOT_FOUND with the cookie cleared.                 *)
C17_RefreshEndpointRefuses ==
    [][\A r \in DOMAIN reqs :
           (AtStage(r, {"refreshToken"}) /\ reqs'[r] # reqs[r] /\ reqs[r].in.storeOk)
           => LET cleared == <<ClearCookie("refresh_token", ClearCookieOptions(NODE_ENV))>>
                  cookies == reqs[r].in.cookies
              IN  IF ~Truthy(cookies, "refresh_token")
                  THEN Refused(reqs'[r].res, "REFRESH_TOKEN_REQUIRED", <<>>)
                  ELSE IF ~IsToken(cookies.refresh_token)
                          \/ cookies.refresh_token.sig # "refresh"
                  THEN Refused(reqs'[r].res, "INVALID_REFRESH_TOKEN", <<>>)
                  ELSE IF now >= cookies.refresh_token.exp
                  THEN Refused(reqs'[r].res, "SESSION_EXPIRED", cleared)
                  ELSE UserOf(db, cookies.refresh_token) = {}
                       => Refused(reqs'[r].res, "USER_NOT_FOUND", cleared)]_vars

(* C18: the claims of an issued access token are those of the credential   *)
(* record at the time of issuance.  When the interceptor renews, the role   *)
(* in the new access token and in the attached identity is the role the     *)
(* store holds at that moment for the user of the refresh token.            *)
C18_RenewalUsesStoredRole ==
    [][\A r \in DOMAIN reqs :
           (~Renewed(r) /\ Has(reqs'[r].res.headers, "XNewAccessToken"))
           => \A u \in UserOf(db, reqs[r].in.cookies.refresh_token) :
                  /\ reqs'[r].res.headers.XNewAccessToken.payload.role = u.role
                  /\ reqs'[r].ctx.user.role = u.role]_vars

Plaintexts == {AnaPassword, BeaPassword, NewPassword, WeakPassword, EmptyPassword}

LoginStatus(table, email, p) ==
    login(NODE_ENV, table, now, [NoInput EXCEPT !.body = [email |-> email, password |-> p]],
          NoResponse).status

(* C19: an empty-string password on update means keep the existing one.    *)
(* After updateUserById with password '' or without password the stored     *)
(* hash is the one from before, a login with the previous password succeeds *)
(* and a login with the empty string does not; after a successful update    *)
(* with a non-empty password the stored hash is that of the new password.   *)
C19_EmptyPasswordKeepsHash ==
    [][\A r \in DOMAIN reqs :
           (AtStage(r, {"updateUserById"}) /\ reqs'[r] # reqs[r])
           => \A u \in {x \in db : x.user_id = reqs[r].in.params.user_id} :
                  \E v \in db' :
                      /\ v.user_id = u.user_id
                      /\ IF ~Has(reqs[r].in.body, "password")
                            \/ reqs[r].in.body.password = EmptyPassword
                         THEN /\ v.password = u.password
                              /\ \A p \in Plaintexts :
                                     bcryptCompare(p, u.password)
                                     => LoginStatus(db', v.email, p) = 200
                              /\ LoginStatus(db', v.email, EmptyPassword) # 200
                         ELSE reqs'[r].res.status = 200
                              => /\ bcryptCompare(reqs[r].in.body.password, v.password)
                                 /\ LoginStatus(db', v.email, reqs[r].in.body.password)
                                    = 200]_vars

C19_Witness ==
    \E r \in DOMAIN reqs :
        /\ reqs[r].route = "updateUserById" /\ Sent(r) /\ reqs[r].res.status = 200
        /\ Has(reqs[r].in.body, "password") /\ reqs[r].in.body.password = EmptyPassword
        /\ \E u \in db : /\ u.user_id = reqs[r].in.params.user_id
                         /\ u.role = "admin"
                         /\ u.password = bcryptHash(BeaPassword, SALT_ROUNDS)
                         /\ LoginStatus(db, u.email, BeaPassword) = 200

SecurityAttributes == {"httpOnly", "secure", "sameSite", "path"}

(* the refresh_token cookies login and /refresh set for a stored user *)
IssuedCookies ==
    UNION {{loginSuccess(NODE_ENV, now, Without(u, "password"), NoResponse).cookies[1],
            refreshSuccess(NODE_ENV, now, Without(u, "password"), NoResponse).cookies[1]} :
               u \in InitialUsers}

(* C20: logout clears the refresh cookie with the security attributes it    *)
(* was set with: httpOnly, secure (in production), sameSite strict and path *)
(* /api of the clear are those of the cookie login and /refresh set, and    *)
(* the client no longer holds the cookie.                                   *)
C20_ClearMatchesIssue ==
    \A r \in DOMAIN reqs :
        (reqs[r].route = "logout" /\ Sent(r) /\ reqs[r].reached) =>
            /\ Len(reqs[r].res.cookies) = 1
            /\ reqs[r].res.cookies[1].op = "clear"
            /\ reqs[r].res.cookies[1].name = "refresh_token"
            /\ \A set \in IssuedCookies : \A a \in SecurityAttributes :
                   /\ Has(set.opts, a) /\ Has(reqs[r].res.cookies[1].opts, a)
                   /\ reqs[r].res.cookies[1].opts[a] = set.opts[a]
            /\ reqs[r].res.cookies[1].opts.sameSite = "strict"
            /\ reqs[r].res.cookies[1].opts.secure = (NODE_ENV = "production")
            /\ jar = NoCookie

C20_Witness ==
    \E r \in DOMAIN reqs :
        /\ reqs[r].route = "logout" /\ Sent(r) /\ reqs[r].reached
        /\ NODE_ENV = "production"
        /\ ~NoUser(reqs[r].ctx)
        /\ Has(reqs[r].in.cookies, "refresh_token")
        /\ reqs[r].in.cookies.refresh_token \in {c.value : c \in IssuedCookies}
        /\ jar = NoCookie

(* the interceptor has answered the request itself *)
StoppedAtInterceptor(r) ==
    Sent(r) /\ reqs[r].chain # <<>> /\ Head(reqs[r].chain).mw = "checkRefreshCookie"

ClearsRefreshCookie(res) ==
    \E i \in 1..Len(res.cookies) :
        res.cookies[i].op = "clear" /\ res.cookies[i].name = "refresh_token"

(* C21: every rejection of the Renewal Interceptor clears the refresh       *)
(* cookie.  Whenever checkRefreshCookie answers 401, SESSION_EXPIRED or     *)
(* INVALID_SESSION, the response clears refresh_token and the client no     *)
(* longer holds a refresh cookie to retry with.                             *)
C21_RejectionClearsCookie ==
    \A r \in DOMAIN reqs :
        (StoppedAtInterceptor(r) /\ reqs[r].res.status = 401)
        => /\ reqs[r].res.body.code \in {"SESSION_EXPIRED", "INVALID_SESSION"}
           /\ ClearsRefreshCookie(reqs[r].res)
           /\ jar = NoCookie

ExpiredPending(ctx) == Has(ctx, "tokenExpired") /\ ctx.tokenExpired

C23_NoCookieSessionExpired ==
    [][\A r \in DOMAIN reqs :
           (/\ AtStage(r, {"checkRefreshCookie"})
            /\ reqs'[r] # reqs[r]
            /\ ExpiredPending(reqs[r].ctx)
            /\ ~Has(reqs[r].in.cookies, "refresh_token"))
           => /\ reqs'[r].res.sent
              /\ reqs'[r].res.status = 401
              /\ reqs'[r].res.body.code = "SESSION_EXPIRED"
              /\ reqs'[r].res.cookies = <<>>
              /\ jar' = jar
              /\ TokensOf(reqs'[r].res) = {}
              /\ reqs'[r].res.headers = <<>>
              /\ reqs'[r].chain = reqs[r].chain
              /\ ~reqs'[r].reached]_vars

C23_Witness ==
    \E r \in DOMAIN reqs :
        /\ StoppedAtInterceptor(r)
        /\ ExpiredPending(reqs[r].ctx)
        /\ ~Has(reqs[r].in.cookies, "refresh_token")
        /\ reqs[r].res.status = 401 /\ reqs[r].res.body.code = "SESSION_EXPIRED"
        /\ reqs[r].res.cookies = <<>>

(* C24: a verified, unexpired access token whose claims hold neither        *)
(* user_id nor id_user is rejected by authenticate with 401                 *)
(* INVALID_TOKEN_FORMAT; no identity is attached and the next stage is not  *)
(* called.                                                                  *)
C24_TokenWithoutUserRejected ==
    [][\A r \in DOMAIN reqs :
           LET token == LocateToken(reqs[r].in).token
           IN  (/\ AtStage(r, {"authenticate"})
                /\ reqs'[r] # reqs[r]
                /\ IsToken(token) /\ verifyAccessToken(token, now).ok
                /\ ~Has(token.payload, "user_id") /\ ~Has(token.payload, "id_user"))
               => /\ reqs'[r].res.sent
                  /\ reqs'[r].res.status = 401
                  /\ reqs'[r].res.body.code = "INVALID_TOKEN_FORMAT"
                  /\ ~reqs'[r].res.body.success
                  /\ reqs'[r].res.cookies = <<>>
                  /\ ~Has(reqs'[r].ctx, "user")
                  /\ reqs'[r].chain = reqs[r].chain
                  /\ ~reqs'[r].reached]_vars

C24_Witness ==
    \E r \in DOMAIN reqs :
        /\ reqs[r].route = "protected" /\ Sent(r)
        /\ reqs[r].chain = reqs[r].stages
        /\ LocateToken(reqs[r].in).token = held
        /\ verifyAccessToken(held, now).ok
        /\ ~Has(held.payload, "user_id") /\ ~Has(held.payload, "id_user")
        /\ reqs[r].res.status = 401
        /\ reqs[r].res.body.code = "INVALID_TOKEN_FORMAT"

(* C25: the interceptor is a no-op unless the context is expired pending    *)
(* renewal.  With tokenExpired false or unset its step hands over to the    *)
(* next stage and changes nothing else: req.user, req.token, the response,  *)
(* its headers and cookies and the client's refresh cookie stay as they     *)
(* were, with or without a refresh cookie, valid or not.                    *)
C25_InterceptorNoOp ==
    [][\A r \in DOMAIN reqs :
           (/\ AtStage(r, {"checkRefreshCookie"})
            /\ reqs'[r] # reqs[r]
            /\ ~ExpiredPending(reqs[r].ctx))
           => /\ reqs'[r] = [reqs[r] EXCEPT !.chain = Tail(reqs[r].chain)]
              /\ jar' = jar
              /\ held' = held]_vars

C25_Witness ==
    \E r \in DOMAIN reqs :
        /\ reqs[r].route = "protected"
        /\ reqs[r].chain = Tail(Tail(reqs[r].stages))
        /\ Has(reqs[r].ctx, "tokenExpired") /\ ~reqs[r].ctx.tokenExpired
        /\ reqs[r].in.cookies.refresh_token = Tamper(AnaRefresh)
        /\ reqs[r].ctx.token = AnaToken
        /\ reqs[r].res = NoResponse
        /\ jar # NoCookie

(* C26: recovery is attempted once per request.  The step of the            *)
(* interceptor on an expired request either renews and hands over, or sends *)
(* its 401 at once and hands over to nothing; what is left of the chain     *)
(* verifies no token again, and a response once sent is final.              *)
C26_RecoveryOnce ==
    [][\A r \in DOMAIN reqs :
           /\ (/\ AtStage(r, {"checkRefreshCookie"})
               /\ reqs'[r] # reqs[r]
               /\ ExpiredPending(reqs[r].ctx))
              => \/ /\ ValidRefreshCookie(r)
                    /\ ~reqs'[r].res.sent
                    /\ Has(reqs'[r].res.headers, "XNewAccessToken")
                    /\ ~ExpiredPending(reqs'[r].ctx)
                    /\ reqs'[r].chain = Tail(reqs[r].chain)
                    /\ \A i \in 1..Len(reqs'[r].chain) :
                           reqs'[r].chain[i].mw \notin {"authenticate", "checkRefreshCookie"}
                 \/ /\ ~ValidRefreshCookie(r)
                    /\ reqs'[r].res.sent
                    /\ reqs'[r].res.status = 401
                    /\ ~Has(reqs'[r].res.headers, "XNewAccessToken")
                    /\ reqs'[r].chain = reqs[r].chain
                    /\ ~reqs'[r].reached
           /\ Sent(r) => reqs'[r] \in {reqs[r], IdleReq}]_vars

C26_Witness ==
    \E r \in DOMAIN reqs :
        /\ StoppedAtInterceptor(r)
        /\ reqs[r].route = "gated"
        /\ ExpiredPending(reqs[r].ctx)
        /\ IsToken(reqs[r].in.cookies.refresh_token)
        /\ now >= reqs[r].in.cookies.refresh_token.exp
        /\ reqs[r].res.status = 401
        /\ ~Renewed(r) /\ ~reqs[r].reached

(* what authenticate makes of a token presented at the moment it was minted *)
Presented(token) ==
    authenticate(NODE_ENV, token.iat, WithToken(NoInput, "header", token), <<>>, NoResponse)

Accepted(token, user_id) ==
    /\ Presented(token).next
    /\ ~NoUser(Presented(token).ctx)
    /\ Presented(token).ctx.user.id_user = user_id

(* C27: every access token the system mints is a usable credential.  The   *)
(* token of a login response and the token of X-New-Access-Token, presented *)
(* to authenticate before expiry, are accepted and yield the user           *)
(* identifier of the session they were minted for.                          *)
C27_MintedTokenUsable ==
    \A r \in DOMAIN reqs :
        /\ (Sent(r) /\ reqs[r].route = "login" /\ Has(reqs[r].res.body, "accessToken"))
           => Accepted(reqs[r].res.body.accessToken, reqs[r].res.body.user.user_id)
        /\ Renewed(r)
           => Accepted(reqs[r].res.headers.XNewAccessToken,
                       reqs[r].in.cookies.refresh_token.payload.user_id)

(* C28: every clear of the refresh cookie on a rejection, by the Renewal    *)
(* Interceptor (INVALID_SESSION) or by /refresh (SESSION_EXPIRED,           *)
(* USER_NOT_FOUND), passes the httpOnly, secure, sameSite and path the      *)
(* cookie was issued with.                                                  *)
C28_RejectionClearParity ==
    \A r \in DOMAIN reqs :
        (Sent(r) /\ reqs[r].res.status = 401) =>
            \A i \in 1..Len(reqs[r].res.cookies) :
                (reqs[r].res.cookies[i].op = "clear"
                 /\ reqs[r].res.cookies[i].name = "refresh_token")
                => \A set \in IssuedCookies : \A a \in SecurityAttributes :
                       /\ Has(reqs[r].res.cookies[i].opts, a)
                       /\ reqs[r].res.cookies[i].opts[a] = set.opts[a]

(* C29: an expired access token does not reach a role-gated handler        *)
(* without a successful renewal.  On a chain with a role gate authenticate  *)
(* marks an expired token as expired and attaches no identity; while the    *)
(* request is so marked its handler is not invoked and its response, once   *)
(* sent, is a 401, with or without the interceptor in the chain; a handler  *)
(* that is invoked sees an identity from a verified or renewed token.       *)
C29_ExpiredNeverPassesGate ==
    [][\A r \in DOMAIN reqs :
           LET token == LocateToken(reqs[r].in).token
           IN  GateIndex(r) # {} =>
                   /\ (/\ AtStage(r, {"authenticate"})
                       /\ reqs'[r] # reqs[r]
                       /\ IsToken(token) /\ token.sig = "access" /\ now >= token.exp)
                      => ExpiredPending(reqs'[r].ctx) /\ NoUser(reqs'[r].ctx)
                   /\ ExpiredPending(reqs[r].ctx)
                      => /\ ~reqs[r].reached
                         /\ ~PassedGate(r)
                         /\ Sent(r) => reqs[r].res.status = 401
                   /\ reqs[r].reached
                      => /\ ~NoUser(reqs[r].ctx)
                         /\ Renewed(r) \/ reqs[r].ctx.token = token]_vars

C29_Witness ==
    \E r \in DOMAIN reqs :
        /\ reqs[r].route = "gatedNoRenewal"
        /\ StoppedAtGate(r)
        /\ Head(reqs[r].chain).mw = "requireAdmin"
        /\ ExpiredPending(reqs[r].ctx)
        /\ reqs[r].ctx.token = held /\ held.payload.role = "admin"
        /\ reqs[r].res.status = 401
        /\ ~reqs[r].reached

(* C30: a failed login leaves the session untouched.  On every outcome of   *)
(* login other than 200 (400, 401, 500) the response hands out no access or *)
(* refresh token and sets or clears no cookie, and the refresh cookie and   *)
(* the access token the client holds are the ones it held before.           *)
C30_FailedLoginTouchesNothing ==
    [][\A r \in DOMAIN reqs :
           (/\ AtStage(r, {"login"})
            /\ reqs'[r] # reqs[r]
            /\ reqs'[r].res.status # 200)
           => /\ reqs'[r].res.sent
              /\ reqs'[r].res.status \in {400, 401, 500}
              /\ TokensOf(reqs'[r].res) = {}
              /\ reqs'[r].res.cookies = <<>>
              /\ reqs'[r].res.headers = <<>>
              /\ jar' = jar
              /\ held' = held]_vars

C30_Witness ==
    \E r \in DOMAIN reqs :
        /\ reqs[r].route = "login" /\ Sent(r)
        /\ ~reqs[r].in.storeOk
        /\ reqs[r].res.status = 500
        /\ reqs[r].res.cookies = <<>>
        /\ jar # NoCookie
        /\ Has(reqs[r].in.cookies, "refresh_token")
        /\ jar.value = reqs[r].in.cookies.refresh_token

=============================================================================
